---- MODULE Spec2Model ----
(***************************************************************************)
(* Solar-pro dashboard: the energy derivation / filtering / aggregation    *)
(* pipeline of the App component, in its eight near-duplicate variants     *)
(* (src/src/App.jsx holds two, src/unnamed/part_000 .. part_005 one each). *)
(*                                                                         *)
(* JavaScript values are modelled explicitly, because the pipeline's       *)
(* behaviour on missing and non-numeric fields is decided by JavaScript's  *)
(* coercions (||, Number(), binary +, toFixed).  Numbers are exact         *)
(* rationals n/d in kWh; binary floating-point rounding error is not       *)
(* modelled.  Strings are sequences of one-character strings.              *)
(***************************************************************************)
EXTENDS Integers, Sequences, FiniteSets

\* Largest number of rows a fetch returns.
MaxRows == 2

(***************************************************************************)
(* JavaScript values                                                       *)
(***************************************************************************)
Abs(x) == IF x < 0 THEN -x ELSE x

RECURSIVE Gcd(_, _)
Gcd(a, b) == IF b = 0 THEN a ELSE Gcd(b, a % b)

RECURSIVE Pow10(_)
Pow10(k) == IF k = 0 THEN 1 ELSE 10 * Pow10(k - 1)

JsVal(t, n, d, s) == [t |-> t, n |-> n, d |-> d, s |-> s]

\* The number p/q (q # 0), in lowest terms with a positive denominator.
Rat(p, q) ==
  LET g  == Gcd(Abs(p), Abs(q))
      sg == IF q < 0 THEN -1 ELSE 1
  IN  JsVal("number", (sg * p) \div g, Abs(q) \div g, <<>>)

Num(k)      == Rat(k, 1)
Zero        == Num(0)
NaN         == JsVal("NaN", 0, 1, <<>>)
Infinity(sg) == JsVal("Infinity", sg, 1, <<>>)
Null        == JsVal("null", 0, 1, <<>>)
Undefined   == JsVal("undefined", 0, 1, <<>>)
Str(s)      == JsVal("string", 0, 1, s)
\* A thrown TypeError, as the outcome of the expression that threw.
TypeError   == JsVal("TypeError", 0, 1, <<>>)

IsNum(v) == v.t = "number"

DigitChars == <<"0", "1", "2", "3", "4", "5", "6", "7", "8", "9">>
IsDigit(c) == \E i \in 1..10 : DigitChars[i] = c
DigitVal(c) == (CHOOSE i \in 1..10 : DigitChars[i] = c) - 1

RECURSIVE DigitsValue(_)
DigitsValue(s) ==
  IF s = <<>> THEN 0
  ELSE 10 * DigitsValue(SubSeq(s, 1, Len(s) - 1)) + DigitVal(s[Len(s)])

RECURSIVE NatToChars(_)
NatToChars(m) ==
  IF m < 10 THEN <<DigitChars[m + 1]>>
  ELSE NatToChars(m \div 10) \o <<DigitChars[(m % 10) + 1]>>

RECURSIVE PadLeft(_, _, _)
PadLeft(s, len, c) == IF Len(s) >= len THEN s ELSE PadLeft(<<c>> \o s, len, c)

\* The decimal numeral of m / 10^k with exactly k fraction digits.
Decimal(m, k) ==
  LET ds == PadLeft(NatToChars(m), k + 1, "0")
      ip == SubSeq(ds, 1, Len(ds) - k)
      fp == SubSeq(ds, Len(ds) - k + 1, Len(ds))
  IN  IF k = 0 THEN ip ELSE ip \o <<".">> \o fp

\* StringToNumber: "" is 0, a signed decimal numeral is its value, anything
\* else is NaN.
StringToNumber(s) ==
  IF s = <<>> THEN Zero
  ELSE
    LET neg  == s[1] = "-"
        body == IF s[1] \in {"-", "+"} THEN Tail(s) ELSE s
        dots == {i \in DOMAIN body : body[i] = "."}
        dot  == IF dots = {} THEN Len(body) + 1 ELSE CHOOSE i \in dots : TRUE
        ip   == SubSeq(body, 1, dot - 1)
        fp   == SubSeq(body, dot + 1, Len(body))
        ok   == /\ Cardinality(dots) <= 1
                /\ Len(ip) + Len(fp) > 0
                /\ \A i \in DOMAIN ip : IsDigit(ip[i])
                /\ \A i \in DOMAIN fp : IsDigit(fp[i])
        mag  == DigitsValue(ip) * Pow10(Len(fp)) + DigitsValue(fp)
    IN  IF ~ok THEN NaN
        ELSE Rat(IF neg THEN -mag ELSE mag, Pow10(Len(fp)))

\* Number(v)
Number(v) ==
  CASE v.t = "number"    -> v
    [] v.t = "NaN"       -> NaN
    [] v.t = "Infinity"  -> v
    [] v.t = "null"      -> Zero
    [] v.t = "undefined" -> NaN
    [] v.t = "string"    -> StringToNumber(v.s)

\* ToBoolean(v)
Truthy(v) ==
  CASE v.t = "number"    -> v.n # 0
    [] v.t = "NaN"       -> FALSE
    [] v.t = "Infinity"  -> TRUE
    [] v.t = "null"      -> FALSE
    [] v.t = "undefined" -> FALSE
    [] v.t = "string"    -> v.s # <<>>

\* a || b
Or(a, b) == IF Truthy(a) THEN a ELSE b

\* Number::toString of a number whose decimal expansion terminates.
NumberToString(v) ==
  LET k == CHOOSE j \in 0..20 : Pow10(j) % v.d = 0 /\
                                \A i \in 0..(j - 1) : Pow10(i) % v.d # 0
      m == (Abs(v.n) * Pow10(k)) \div v.d
  IN  (IF v.n < 0 THEN <<"-">> ELSE <<>>) \o Decimal(m, k)

\* JsToString(v)
JsToString(v) ==
  CASE v.t = "string"    -> v.s
    [] v.t = "number"    -> NumberToString(v)
    [] v.t = "NaN"       -> <<"N", "a", "N">>
    [] v.t = "Infinity"  -> (IF v.n < 0 THEN <<"-">> ELSE <<>>) \o
                            <<"I", "n", "f", "i", "n", "i", "t", "y">>
    [] v.t = "null"      -> <<"n", "u", "l", "l">>
    [] v.t = "undefined" -> <<"u", "n", "d", "e", "f", "i", "n", "e", "d">>

\* Arithmetic on the results of Number(): numbers, NaN and the infinities.
NumAdd(x, y) ==
  CASE x.t = "NaN" \/ y.t = "NaN" -> NaN
    [] x.t = "Infinity" /\ y.t = "Infinity" -> IF x.n = y.n THEN x ELSE NaN
    [] x.t = "Infinity" -> x
    [] y.t = "Infinity" -> y
    [] OTHER -> Rat(x.n * y.d + y.n * x.d, x.d * y.d)

NumNeg(x) ==
  CASE x.t = "NaN" -> NaN
    [] x.t = "Infinity" -> Infinity(-x.n)
    [] OTHER -> Rat(-x.n, x.d)

Sign(k) == IF k < 0 THEN -1 ELSE 1

NumMul(x, y) ==
  CASE x.t = "NaN" \/ y.t = "NaN" -> NaN
    [] x.t = "Infinity" \/ y.t = "Infinity" ->
         IF x.n = 0 \/ y.n = 0 THEN NaN ELSE Infinity(Sign(x.n) * Sign(y.n))
    [] OTHER -> Rat(x.n * y.n, x.d * y.d)

NumDiv(x, y) ==
  CASE x.t = "NaN" \/ y.t = "NaN" -> NaN
    [] x.t = "Infinity" /\ y.t = "Infinity" -> NaN
    [] x.t = "Infinity" -> Infinity(x.n * Sign(y.n))
    [] y.t = "Infinity" -> Zero
    [] y.n = 0 -> IF x.n = 0 THEN NaN ELSE Infinity(Sign(x.n))
    [] OTHER -> Rat(x.n * y.d, x.d * y.n)

\* a + b: string concatenation when either operand is a string.
Add(a, b) ==
  IF a.t = "string" \/ b.t = "string"
  THEN Str(JsToString(a) \o JsToString(b))
  ELSE NumAdd(Number(a), Number(b))

\* a - b, a * b, a / b
Sub(a, b) == NumAdd(Number(a), NumNeg(Number(b)))
Mul(a, b) == NumMul(Number(a), Number(b))
Div(a, b) == NumDiv(Number(a), Number(b))

\* a > b for operands that are not both strings.
Gt(a, b) ==
  LET x == Number(a)
      y == Number(b)
  IN  CASE x.t = "NaN" \/ y.t = "NaN" -> FALSE
        [] x.t = "Infinity" -> x.n > 0 /\ ~(y.t = "Infinity" /\ y.n > 0)
        [] y.t = "Infinity" -> y.n < 0
        [] OTHER -> x.n * y.d > y.n * x.d

\* v.toFixed(digits): only numbers have the method; ties round away from 0.
toFixed(v, digits) ==
  CASE v.t = "number" ->
         LET m == (2 * Abs(v.n) * Pow10(digits) + v.d) \div (2 * v.d)
         IN  Str((IF v.n < 0 THEN <<"-">> ELSE <<>>) \o Decimal(m, digits))
    [] v.t = "NaN" -> Str(JsToString(v))
    [] v.t = "Infinity" -> Str(JsToString(v))
    [] OTHER -> TypeError

\* s.startsWith(p) on a string s
startsWith(s, p) == Len(p) <= Len(s) /\ SubSeq(s, 1, Len(p)) = p

(***************************************************************************)
(* The variants and the rows of the daily_readings table                   *)
(***************************************************************************)
\* App1, App2: the two components of src/src/App.jsx; P0 .. P5: part_000 ..
\* part_005.
Variants == {"App1", "App2", "P0", "P1", "P2", "P3", "P4", "P5"}

\* Variants whose derived readings carry an efficiency field.
HasEfficiency == {"App1", "P0"}
\* Variants whose stats sum the raw fields without coercion.
RawSum == {"App1", "P0", "P1", "P2"}
\* Variants whose filter has no Day branch.
NoDayBranch == {"App1", "App2"}
\* Variants whose Year branch tests d.date before calling startsWith.
YearGuard == {"P3", "P5"}
\* Mutation of ModesOffered: every variant offers the three modes.
ModesOfferedAll(v) == {"day", "month", "year"}

\* The modes each variant's controls offer.
ModesOffered(v) ==
  CASE v \in {"App1", "App2"} -> {"month", "year"}
    [] v = "P5" -> {"day", "month"}
    [] OTHER -> {"day", "month", "year"}
\* useState's initial view mode.
InitialMode(v) == IF v \in {"P0", "P3"} THEN "day" ELSE "month"

Y2025 == <<"2", "0", "2", "5">>
Y2026 == <<"2", "0", "2", "6">>
Ymd(y, m, d) == y \o <<"-">> \o m \o <<"-">> \o d
Ym(y, m) == y \o <<"-">> \o m

\* Values the selectors take: the defaults come from the current date, the
\* others from the date, month and year inputs.
DateChoices  == {Ymd(Y2025, <<"0", "1">>, <<"0", "1">>),
                 Ymd(Y2025, <<"0", "3">>, <<"1", "5">>)}
MonthChoices == {Ym(Y2025, <<"0", "1">>), Ym(Y2025, <<"0", "3">>)}
YearChoices  == {Y2025, Y2026}

Row(id, date, p, e, i, c) ==
  [id |-> id, date |-> date, produced |-> p, exported |-> e, imported |-> i,
   consumed |-> c]

NonNumeric == Str(<<"a", "b", "c">>)

\* Multi-row query results are drawn from these rows, listed in the order
\* .order('date', {ascending: true}) returns them (a null date sorts last).
Catalogue == <<
  Row(1, Str(Ymd(Y2025, <<"0", "1">>, <<"0", "1">>)), Num(10), Num(4), Num(2), Num(8)),
  Row(2, Str(Ymd(Y2025, <<"0", "1">>, <<"0", "2">>)), Num(8), Num(2), Num(3), Num(9)),
  Row(3, Str(Ymd(Y2025, <<"0", "1">>, <<"0", "3">>)), Num(0), Num(7), Num(5), Num(0)),
  Row(4, Str(Ymd(Y2025, <<"0", "3">>, <<"1", "5">>)), Rat(1, 4), Rat(1, 20), Num(0), Rat(1, 5)),
  Row(5, Str(Ymd(Y2025, <<"0", "3">>, <<"1", "5">>)), Num(5), Num(7), Num(0), Num(-2)),
  Row(6, Str(Ymd(Y2025, <<"0", "3">>, <<"1", "6">>)), Num(0), Num(0), Num(0), Num(0)),
  Row(7, Str(Ymd(Y2025, <<"0", "4">>, <<"0", "1">>)), Undefined, Num(1), Null, Undefined),
  Row(8, Str(Ymd(Y2025, <<"1", "3">>, <<"0", "1">>)), Num(3), NonNumeric, Num(1), Num(4)),
  Row(9, Str(Ymd(Y2026, <<"0", "1">>, <<"0", "1">>)), Num(6), Num(1), Num(1), Num(6)),
  Row(10, Null, Num(1), Num(1), Num(1), Num(1)) >>

\* Values a field of a single-row result takes.
FieldValues == {Num(0), Num(5), Num(7), Null, Undefined, NonNumeric}

SingleRows ==
  { <<Row(0, Str(Ymd(Y2025, <<"0", "3">>, <<"1", "5">>)), p, e, i, Undefined)>> :
      p \in FieldValues, e \in FieldValues, i \in FieldValues }

RECURSIVE Take(_, _)
Take(i, S) ==
  IF i > Len(Catalogue) THEN <<>>
  ELSE (IF i \in S THEN <<Catalogue[i]>> ELSE <<>>) \o Take(i + 1, S)

\* Contents of the table, as select('*').order('date') lists them.
QueryResults ==
  { Take(1, S) : S \in {T \in SUBSET (1..Len(Catalogue)) : Cardinality(T) <= MaxRows} }
    \cup SingleRows

(***************************************************************************)
(* State                                                                   *)
(***************************************************************************)
VARIABLES
  variant,        \* which of the eight App components runs
  store,          \* the daily_readings table, as a query lists it
  solarData,      \* useState([]): the rows of the last successful fetch
  viewMode,       \* 'day' | 'month' | 'year'
  selectedDate,   \* YYYY-MM-DD
  selectedMonth,  \* YYYY-MM
  selectedYear,   \* YYYY
  loading,        \* useState(true): the loading flag
  adminAuth,      \* useState(false): the admin panel is unlocked
  formData,       \* useState({date, produced, ...}): the admin form
  pending,        \* store requests awaiting their response
  issued,         \* number of store requests sent so far
  changes,        \* table changes not yet notified on the realtime channel
  lastFetch       \* the most recently issued fetch and its outcome

vars == <<variant, store, solarData, viewMode, selectedDate, selectedMonth,
          selectedYear, loading, adminAuth, formData, pending, issued, changes,
          lastFetch>>

\* State of the store protocol, which the view controls leave alone.
storeVars == <<loading, adminAuth, formData, pending, issued, changes, lastFetch>>

(***************************************************************************)
(* Derivation (processedData)                                              *)
(***************************************************************************)
\* Mutation of coerce: the || 0 default dropped.
coerceNoDefault(x) == Number(x)

\* Number(x || 0)
coerce(x) == Number(Or(x, Zero))

\* Mutation of selfUsed: a negative difference clamped to 0.
selfUsedClamped(prod, exp) == IF Gt(exp, prod) THEN Zero ELSE Sub(prod, exp)

\* const self = prod - exp
selfUsed(prod, exp) == Sub(prod, exp)

\* Mutation of consumed: the grid import left out.
consumedWithoutImport(self, imp) == self

\* consumed: self + imp
consumed(self, imp) == Add(self, imp)

\* Mutation of efficiency: the division left unguarded.
efficiencyUnguarded(self, prod) == Mul(Div(self, prod), Num(100))

\* efficiency: prod > 0 ? (self / prod) * 100 : 0
efficiency(self, prod) ==
  IF Gt(prod, Zero) THEN Mul(Div(self, prod), Num(100)) ELSE Zero

\* The callback of solarData.map: { ...d, consumed, selfUsed [, efficiency] }
derive(d) ==
  LET prod == coerce(d.produced)
      exp  == coerce(d.exported)
      imp  == coerce(d.imported)
      self == selfUsed(prod, exp)
  IN  IF variant \in HasEfficiency
      THEN [id |-> d.id, date |-> d.date, produced |-> d.produced,
            exported |-> d.exported, imported |-> d.imported,
            consumed |-> consumed(self, imp), selfUsed |-> self,
            efficiency |-> efficiency(self, prod)]
      ELSE [id |-> d.id, date |-> d.date, produced |-> d.produced,
            exported |-> d.exported, imported |-> d.imported,
            consumed |-> consumed(self, imp), selfUsed |-> self]

\* part_003 has no derivation stage: its filter and stats read solarData.
processedData ==
  IF variant = "P3" THEN solarData
  ELSE [i \in DOMAIN solarData |-> derive(solarData[i])]

(***************************************************************************)
(* Period filter (currentPeriodData)                                       *)
(***************************************************************************)
\* The branch of the filter that runs in mode.
branch(mode) ==
  CASE mode = "day" /\ variant \notin NoDayBranch -> "day"
    [] mode = "month" -> "month"
    [] OTHER -> "year"

\* The branch that runs in the current mode.
activeBranch == branch(viewMode)

\* d.date.startsWith(...) throws when d.date is null or undefined.
filterThrows(d, mode) ==
  /\ d.date.t \in {"null", "undefined"}
  /\ \/ branch(mode) = "month"
     \/ branch(mode) = "year" /\ variant \notin YearGuard

\* Mutation of filterKeeps: the Month branch reads the month of selectedDate.
filterKeepsMonthOfDate(d, mode, date, month, year) ==
  CASE branch(mode) = "day" -> d.date.t = "string" /\ d.date.s = date
    [] branch(mode) = "month" -> startsWith(d.date.s, SubSeq(date, 1, 7))
    [] OTHER ->
         /\ variant \in YearGuard => Truthy(d.date)
         /\ d.date.t = "string"
         /\ startsWith(d.date.s, year)

\* The filter callback's result on a row for which it does not throw.
filterKeeps(d, mode, date, month, year) ==
  CASE branch(mode) = "day" -> d.date.t = "string" /\ d.date.s = date
    [] branch(mode) = "month" -> startsWith(d.date.s, month)
    [] OTHER ->
         /\ variant \in YearGuard => Truthy(d.date)
         /\ d.date.t = "string"
         /\ startsWith(d.date.s, year)

\* Mutation of filterByPeriod: the rows kept, latest first.
filterByPeriodReversed(data, mode, date, month, year) ==
  LET keeps(d) == filterKeeps(d, mode, date, month, year)
      kept == SelectSeq(data, keeps)
  IN  IF \E i \in DOMAIN data : filterThrows(data[i], mode)
      THEN [t |-> "TypeError", rows |-> <<>>]
      ELSE [t |-> "array",
            rows |-> [k \in DOMAIN kept |-> kept[Len(kept) + 1 - k]]]

\* The memo's function of its dependencies: [t |-> "array", rows |-> the
\* rows kept], or the TypeError thrown.
filterByPeriod(data, mode, date, month, year) ==
  LET keeps(d) == filterKeeps(d, mode, date, month, year)
  IN  IF \E i \in DOMAIN data : filterThrows(data[i], mode)
      THEN [t |-> "TypeError", rows |-> <<>>]
      ELSE [t |-> "array", rows |-> SelectSeq(data, keeps)]

currentPeriodData ==
  filterByPeriod(processedData, viewMode, selectedDate, selectedMonth,
                 selectedYear)

(***************************************************************************)
(* Aggregation (stats)                                                     *)
(***************************************************************************)
\* rows.reduce((acc, curr) => acc + curr[field], 0)
RECURSIVE reduceRaw(_, _, _)
reduceRaw(rows, field, acc) ==
  IF rows = <<>> THEN acc
  ELSE reduceRaw(Tail(rows), field, Add(acc, Head(rows)[field]))

\* rows.reduce((acc, curr) => acc + Number(curr[field] || 0), 0)
RECURSIVE reduceCoerced(_, _, _)
reduceCoerced(rows, field, acc) ==
  IF rows = <<>> THEN acc
  ELSE reduceCoerced(Tail(rows), field, Add(acc, coerce(Head(rows)[field])))

\* Mutation of selfRate: the division left unguarded.
selfRateUnguarded(self, prod) == toFixed(Mul(Div(self, prod), Num(100)), 0)

\* prod > 0 ? ((self / prod) * 100).toFixed(0) : 0
selfRate(self, prod) ==
  IF Gt(prod, Zero) THEN toFixed(Mul(Div(self, prod), Num(100)), 0) ELSE Zero

\* Mutation of gridRate: 0 substituted only when cons is exactly 0.
gridRateNonZero(imp, cons) ==
  IF Number(cons).t = "number" /\ Number(cons).n # 0
  THEN toFixed(Mul(Div(imp, cons), Num(100)), 0)
  ELSE Zero

\* cons > 0 ? ((imp / cons) * 100).toFixed(0) : 0
gridRate(imp, cons) ==
  IF Gt(cons, Zero) THEN toFixed(Mul(Div(imp, cons), Num(100)), 0) ELSE Zero

\* An object literal whose property expressions are evaluated in turn: the
\* first toFixed that throws ends the evaluation.
Object(o) ==
  IF \E k \in DOMAIN o \ {"t"} : o[k] = TypeError THEN TypeError ELSE o

\* Mutation of sumsRaw: the consumed total summed from the produced column.
sumsRawWrongColumn(rows) ==
  LET prod == reduceRaw(rows, "produced", Zero)
      exp  == reduceRaw(rows, "exported", Zero)
  IN  [count |-> Num(Len(rows)),
       prod  |-> prod,
       exp   |-> exp,
       imp   |-> reduceRaw(rows, "imported", Zero),
       cons  |-> prod,
       self  |-> Sub(prod, exp)]

\* The reduce calls of the variants that sum the raw fields as they are
\* (src/src/App.jsx first component, part_000, part_001, part_002).
sumsRaw(rows) ==
  LET prod == reduceRaw(rows, "produced", Zero)
      exp  == reduceRaw(rows, "exported", Zero)
  IN  [count |-> Num(Len(rows)),
       prod  |-> prod,
       exp   |-> exp,
       imp   |-> reduceRaw(rows, "imported", Zero),
       cons  |-> reduceRaw(rows, "consumed", Zero),
       self  |-> Sub(prod, exp)]

\* The reduce calls of the variants that coerce the raw fields
\* (src/src/App.jsx second component, part_004, part_005).
sumsCoerced(rows) ==
  [count |-> Num(Len(rows)),
   prod  |-> reduceCoerced(rows, "produced", Zero),
   exp   |-> reduceCoerced(rows, "exported", Zero),
   imp   |-> reduceCoerced(rows, "imported", Zero),
   cons  |-> reduceRaw(rows, "consumed", Zero),
   self  |-> reduceRaw(rows, "selfUsed", Zero)]

\* part_003: consumed is a stored column, summed like the others; there is
\* no self local, toHome is prod - exp.
sumsStored(rows) ==
  LET prod == reduceCoerced(rows, "produced", Zero)
      exp  == reduceCoerced(rows, "exported", Zero)
  IN  [count |-> Num(Len(rows)),
       prod  |-> prod,
       exp   |-> exp,
       imp   |-> reduceCoerced(rows, "imported", Zero),
       cons  |-> reduceCoerced(rows, "consumed", Zero),
       self  |-> Sub(prod, exp)]

\* The locals of the stats memo in the running variant.
sums(rows) ==
  CASE variant \in RawSum -> sumsRaw(rows)
    [] variant = "P3" -> sumsStored(rows)
    [] OTHER -> sumsCoerced(rows)

\* src/src/App.jsx (first component), part_000, part_002: one decimal for
\* the totals.
statsRaw(rows) ==
  LET s == sumsRaw(rows)
  IN  Object([t |-> "object",
              totalProduced |-> toFixed(s.prod, 1),
              totalConsumed |-> toFixed(s.cons, 1),
              avgProduced |-> toFixed(Div(s.prod, s.count), 2),
              avgConsumed |-> toFixed(Div(s.cons, s.count), 2),
              exported |-> toFixed(s.exp, 1),
              imported |-> toFixed(s.imp, 1),
              selfUsed |-> toFixed(s.self, 1),
              selfRate |-> selfRate(s.self, s.prod),
              gridRate |-> gridRate(s.imp, s.cons)])

\* part_001: as statsRaw, with netExport in place of selfUsed.
statsNet(rows) ==
  LET s == sumsRaw(rows)
  IN  Object([t |-> "object",
              totalProduced |-> toFixed(s.prod, 1),
              totalConsumed |-> toFixed(s.cons, 1),
              avgProduced |-> toFixed(Div(s.prod, s.count), 2),
              avgConsumed |-> toFixed(Div(s.cons, s.count), 2),
              exported |-> toFixed(s.exp, 1),
              imported |-> toFixed(s.imp, 1),
              netExport |-> toFixed(Sub(s.exp, s.imp), 1),
              selfRate |-> selfRate(s.self, s.prod),
              gridRate |-> gridRate(s.imp, s.cons)])

\* src/src/App.jsx (second component), part_004, part_005: two decimals.
statsCoerced(rows) ==
  LET s == sumsCoerced(rows)
  IN  Object([t |-> "object",
              totalProduced |-> toFixed(s.prod, 2),
              totalConsumed |-> toFixed(s.cons, 2),
              avgProduced |-> toFixed(Div(s.prod, s.count), 2),
              avgConsumed |-> toFixed(Div(s.cons, s.count), 2),
              exported |-> toFixed(s.exp, 2),
              imported |-> toFixed(s.imp, 2),
              selfUsed |-> toFixed(s.self, 2),
              selfRate |-> selfRate(s.self, s.prod),
              gridRate |-> gridRate(s.imp, s.cons)])

\* part_003: no averages; two decimals.
statsStored(rows) ==
  LET s == sumsStored(rows)
  IN  Object([t |-> "object",
              produced |-> toFixed(s.prod, 2),
              consumed |-> toFixed(s.cons, 2),
              exported |-> toFixed(s.exp, 2),
              imported |-> toFixed(s.imp, 2),
              toHome |-> toFixed(Sub(s.prod, s.exp), 2),
              fromSystem |-> toFixed(Sub(s.cons, s.imp), 2),
              selfConsumption |-> selfRate(s.self, s.prod),
              gridReliance |-> gridRate(s.imp, s.cons)])

\* if (currentPeriodData.length === 0) return null
aggregate(rows) ==
  IF Len(rows) = 0 THEN Null
  ELSE CASE variant \in {"App1", "P0", "P2"} -> statsRaw(rows)
         [] variant = "P1" -> statsNet(rows)
         [] variant = "P3" -> statsStored(rows)
         [] OTHER -> statsCoerced(rows)

\* The stats memo; a filter that threw fails the render before stats runs.
stats ==
  LET period == currentPeriodData
  IN  IF period.t = "TypeError" THEN TypeError ELSE aggregate(period.rows)

(***************************************************************************)
(* Presentation of stats (part_000 and part_003)                           *)
(***************************************************************************)
\* stats?.f
optional(st, f) == IF st.t \in {"null", "undefined"} THEN Undefined ELSE st[f]

\* {v} in JSX: null and undefined write nothing.
text(v) == IF v.t \in {"null", "undefined"} THEN <<>> ELSE JsToString(v)

\* `${v}suffix`
template(v, suffix) == JsToString(v) \o suffix

\* part_003: the two AnalysisPanels and the FlowCards; the width of a bar
\* is its percentage.
analysisPanels(st) ==
  LET zero == Str(<<"0", ".", "0", "0">>)
      selfConsumption == Or(optional(st, "selfConsumption"), Zero)
      gridReliance == Or(optional(st, "gridReliance"), Zero)
      flow(f) == IF st.t = "object"
                 THEN template(toFixed(Div(st[f], Num(10)), 2), <<" ", "k", "W">>)
                 ELSE <<"0", ".", "0", "0", " ", "k", "W">>
  IN  [yield          |-> text(Or(optional(st, "produced"), zero)),
       toHome         |-> text(Or(optional(st, "toHome"), zero)),
       toHomeBar      |-> template(selfConsumption, <<"%">>),
       toGrid         |-> text(Or(optional(st, "exported"), zero)),
       toGridBar      |-> template(Sub(Num(100), selfConsumption), <<"%">>),
       consumption    |-> text(Or(optional(st, "consumed"), zero)),
       fromSystem     |-> text(Or(optional(st, "fromSystem"), zero)),
       fromSystemBar  |-> template(Sub(Num(100), gridReliance), <<"%">>),
       fromGrid       |-> text(Or(optional(st, "imported"), zero)),
       fromGridBar    |-> template(gridReliance, <<"%">>),
       solarFlow      |-> flow("produced"),
       gridFlow       |-> flow("imported"),
       loadFlow       |-> flow("consumed")]

\* part_000: the two InsightCards and the MiniMetrics.
insightCards(st, mode) ==
  LET zero == Str(<<"0", ".", "0">>)
      avg(f) == LET a == IF mode # "day" THEN optional(st, f) ELSE Null
                IN  IF Truthy(a) THEN <<"A", "v", "g", ":", " ">> \o text(a)
                    ELSE <<>>
      selfRate_ == optional(st, "selfRate")
      gridRate_ == optional(st, "gridRate")
  IN  [generation      |-> text(Or(optional(st, "totalProduced"), zero)),
       generationAvg   |-> avg("avgProduced"),
       directUse       |-> text(selfRate_) \o <<"%">>,
       gridFeed        |-> text(Sub(Num(100), selfRate_)) \o <<"%">>,
       consumption     |-> text(Or(optional(st, "totalConsumed"), zero)),
       consumptionAvg  |-> avg("avgConsumed"),
       solarShare      |-> text(Sub(Num(100), gridRate_)) \o <<"%">>,
       imported        |-> text(gridRate_) \o <<"%">>,
       independence    |-> template(Sub(Num(100), gridRate_), <<"%">>),
       selfSufficiency |-> template(selfRate_, <<"%">>),
       exportRatio     |->
         IF st.t = "object"
         THEN template(toFixed(Mul(Div(st.exported, st.totalProduced),
                                   Num(100)), 0), <<"%">>)
         ELSE <<"0", "%">>]

\* Variants whose presentation of stats is modelled.
Presented == {"P0", "P3"}

\* What the dashboard of a variant of Presented shows for the stats st.
presentation(st) ==
  IF variant = "P3" THEN analysisPanels(st) ELSE insightCards(st, viewMode)

(***************************************************************************)
(* Year rollup (yearlyGraphData)                                           *)
(***************************************************************************)
\* Variants that compute yearlyGraphData (part_001, part_003 and part_005
\* have no year chart).
HasYearly == {"App1", "App2", "P0", "P2", "P4"}

months ==
  <<"Jan", "Feb", "Mar", "Apr", "May", "Jun",
    "Jul", "Aug", "Sep", "Oct", "Nov", "Dec">>

\* `${selectedYear}-${String(index + 1).padStart(2, '0')}`
monthPrefix(index) ==
  selectedYear \o <<"-">> \o PadLeft(NatToChars(index + 1), 2, "0")

\* processedData.filter(d => d.date.startsWith(prefix)), when no date throws.
monthEntries(index) ==
  LET inMonth(d) == startsWith(d.date.s, monthPrefix(index))
  IN  SelectSeq(processedData, inMonth)

\* The object the months.map callback returns for months[index].
monthBucket(index) ==
  [name     |-> months[index + 1],
   produced |-> reduceRaw(monthEntries(index), "produced", Zero),
   consumed |-> reduceRaw(monthEntries(index), "consumed", Zero)]

\* The yearlyGraphData memo: [] outside Year mode; in Year mode the twelve
\* buckets, or the TypeError of d.date.startsWith on a null/undefined date.
yearlyGraphData ==
  IF viewMode # "year" THEN [t |-> "array", rows |-> <<>>]
  ELSE IF \E i \in DOMAIN processedData :
            processedData[i].date.t \in {"null", "undefined"}
       THEN [t |-> "TypeError", rows |-> <<>>]
       ELSE [t |-> "array", rows |-> [m \in 1..12 |-> monthBucket(m - 1)]]

(***************************************************************************)
(* Operations                                                              *)
(***************************************************************************)
\* lastFetch before any fetch was issued.
NoFetch == [seq |-> 0, data |-> <<>>, outcome |-> "none"]

\* new Date().toISOString().split('T')[0] on the day of the behaviour.
today == Ymd(Y2025, <<"0", "3">>, <<"1", "5">>)

\* The form as useState creates it and as addEntry resets it: today's date
\* and empty inputs (only part_003 has a consumed input).
defaultForm ==
  [date |-> today, produced |-> <<>>, exported |-> <<>>, imported |-> <<>>,
   consumed |-> <<>>]

\* if (loading && supabaseUrl) return <the loading screen>: the dashboard
\* and the admin panel are rendered only past this early return (part_003
\* keeps them once rows have been loaded).
Rendered ==
  ~(loading /\ (variant = "P3" => solarData = <<>>))

Init ==
  /\ variant \in Variants
  /\ store \in QueryResults
  /\ solarData = <<>>
  /\ viewMode = InitialMode(variant)
  /\ selectedDate \in DateChoices
  /\ selectedMonth \in MonthChoices
  /\ selectedYear \in YearChoices
  /\ loading = TRUE
  /\ adminAuth = FALSE
  /\ formData = defaultForm
  /\ pending = {}
  /\ issued = 0
  /\ changes = 0
  /\ lastFetch = NoFetch

\* fetchData with nothing else happening before its response arrives: on
\* success setSolarData(data || []), on error solarData stays; then
\* setLoading(false).
fetchData ==
  /\ \E error \in BOOLEAN :
       solarData' = IF ~error THEN store ELSE solarData
  /\ loading' = FALSE
  /\ UNCHANGED <<variant, store, viewMode, selectedDate, selectedMonth, selectedYear>>
  /\ UNCHANGED <<adminAuth, formData, pending, issued, changes, lastFetch>>

\* Mutation of setViewMode: a mode switch that also resets the month.
setViewModeResetting ==
  /\ Rendered
  /\ \E m \in ModesOffered(variant) : viewMode' = m
  /\ selectedMonth' = Ym(Y2025, <<"0", "1">>)
  /\ UNCHANGED <<variant, store, solarData, selectedDate, selectedYear>>
  /\ UNCHANGED storeVars

\* A click on one of the mode buttons (the mode select in part_005).
setViewMode ==
  /\ Rendered
  /\ \E m \in ModesOffered(variant) : viewMode' = m
  /\ UNCHANGED <<variant, store, solarData, selectedDate, selectedMonth, selectedYear>>
  /\ UNCHANGED storeVars

\* The date input is rendered in Day mode only.
setSelectedDate ==
  /\ Rendered
  /\ viewMode = "day"
  /\ \E v \in DateChoices : selectedDate' = v
  /\ UNCHANGED <<variant, store, solarData, viewMode, selectedMonth, selectedYear>>
  /\ UNCHANGED storeVars

\* The month input: in Month mode (in part_005, whenever the mode is not Day).
setSelectedMonth ==
  /\ Rendered
  /\ IF variant = "P5" THEN viewMode # "day" ELSE viewMode = "month"
  /\ \E v \in MonthChoices : selectedMonth' = v
  /\ UNCHANGED <<variant, store, solarData, viewMode, selectedDate, selectedYear>>
  /\ UNCHANGED storeVars

\* The year select is rendered in Year mode; part_005 renders none.
setSelectedYear ==
  /\ Rendered
  /\ variant # "P5"
  /\ viewMode = "year"
  /\ \E v \in YearChoices : selectedYear' = v
  /\ UNCHANGED <<variant, store, solarData, viewMode, selectedDate, selectedMonth>>
  /\ UNCHANGED storeVars

Next ==
  \/ fetchData
  \/ setViewMode
  \/ setSelectedDate
  \/ setSelectedMonth
  \/ setSelectedYear

Spec == Init /\ [][Next]_vars

(***************************************************************************)
(* The store protocol: fetch, insert and delete requests in flight         *)
(***************************************************************************)
\* Requests sent to the store in one behaviour.
MaxRequests == 5

\* A request awaiting its response. A select carries the rows the store
\* lists for it, an insert the row of its payload, a delete the id.
Request(seq, op, id, data, cause) ==
  [seq |-> seq, op |-> op, id |-> id, data |-> data, cause |-> cause]

selects(P) == {m \in P : m.op = "select"}

\* Tables the behaviours of the store protocol start from.
StoreChoices == {Take(1, {1}), Take(1, {1, 2})}

\* What the inputs of the admin form can hold: a number input's value is
\* the empty string or a numeric string.
FormChoices ==
  {defaultForm,
   [date     |-> today,
    produced |-> <<"5">>, exported |-> <<"7">>, imported |-> <<"0">>,
    consumed |-> <<"3">>]}

\* The inputs of the admin form that carry the required attribute.
requiredInputs(v) ==
  IF v = "P3" THEN {"date"}
  ELSE {"date", "produced", "exported", "imported"}

\* The browser's constraint validation, which precedes onSubmit: a
\* required input must not be empty.
checkValidity(v, form) == \A f \in requiredInputs(v) : form[f] # <<>>

\* parseFloat of an input's value: NaN for the empty string.
parseFloat(s) == IF s = <<>> THEN NaN ELSE StringToNumber(s)

\* JSON.stringify of the payload writes NaN as null.
toJSON(v) == IF v = NaN THEN Null ELSE v

\* The row an insert of the form's payload stores under a fresh id; only
\* part_003 sends a consumed column.
insertedRow(form, id) ==
  Row(id, Str(form.date),
      toJSON(parseFloat(form.produced)),
      toJSON(parseFloat(form.exported)),
      toJSON(parseFloat(form.imported)),
      IF variant = "P3" THEN toJSON(parseFloat(form.consumed)) ELSE Undefined)

CharRank(c) == IF c = "-" THEN 0 ELSE 1 + DigitVal(c)

\* a < b in the order of .order('date', {ascending: true}).
RECURSIVE DateBefore(_, _)
DateBefore(a, b) ==
  IF b = <<>> THEN FALSE
  ELSE IF a = <<>> THEN TRUE
  ELSE IF Head(a) # Head(b) THEN CharRank(Head(a)) < CharRank(Head(b))
  ELSE DateBefore(Tail(a), Tail(b))

\* The table listed by date after r has been inserted.
insertRow(S, r) ==
  LET k == Cardinality({i \in DOMAIN S : ~DateBefore(r.date.s, S[i].date.s)})
  IN  SubSeq(S, 1, k) \o <<r>> \o SubSeq(S, k + 1, Len(S))

\* The table after .delete().eq('id', id).
deleteRow(S, id) ==
  LET keep(r) == r.id # id IN SelectSeq(S, keep)

\* A call of fetchData: setLoading(true) and the select is sent; rest are
\* the requests that stay in flight, rows what the store lists for it.
callFetchData(rest, rows, cause) ==
  /\ issued < MaxRequests
  /\ pending' = rest \cup {Request(issued + 1, "select", 0, rows, cause)}
  /\ issued' = issued + 1
  /\ loading' = TRUE
  /\ lastFetch' = [seq |-> issued + 1, data |-> rows, outcome |-> "inflight"]

\* The outcome of the fetch m as lastFetch records it.
settle(m, outcome) ==
  IF m.seq = lastFetch.seq THEN [lastFetch EXCEPT !.outcome = outcome]
  ELSE lastFetch

\* useEffect(() => { if (supabase) fetchData(); }, [supabase])
mountFetch ==
  /\ issued = 0
  /\ callFetchData(pending, store, "mount")
  /\ UNCHANGED <<formData, variant, store, solarData, viewMode, selectedDate,
                 selectedMonth, selectedYear, adminAuth, changes>>

\* The select of a fetchData returns rows: setSolarData(data || []);
\* setLoading(false).
fetchSucceeded ==
  \E m \in selects(pending) :
    /\ solarData' = m.data
    /\ loading' = FALSE
    /\ pending' = pending \ {m}
    /\ lastFetch' = settle(m, "ok")
    /\ UNCHANGED <<formData, variant, store, viewMode, selectedDate, selectedMonth,
                   selectedYear, adminAuth, issued, changes>>

\* The select returns an error (in part_003 it may also throw, which the
\* try/catch logs): solarData is not written; setLoading(false).
fetchFailed ==
  \E m \in selects(pending) :
    /\ loading' = FALSE
    /\ pending' = pending \ {m}
    /\ lastFetch' = settle(m, "error")
    /\ UNCHANGED <<formData, variant, store, solarData, viewMode, selectedDate,
                   selectedMonth, selectedYear, adminAuth, issued, changes>>

\* password === 'admin123' ? setAdminAuth(true) : alert(...)
handleAdminLogin ==
  /\ Rendered
  /\ ~adminAuth
  /\ \E password \in {"admin123", "admin"} :
       adminAuth' = (password = "admin123")
  /\ UNCHANGED <<formData, variant, store, solarData, viewMode, selectedDate,
                 selectedMonth, selectedYear, loading, pending, issued,
                 changes, lastFetch>>

\* The Logout button of the admin panel (part_005 has none).
logout ==
  /\ Rendered
  /\ adminAuth
  /\ variant # "P5"
  /\ adminAuth' = FALSE
  /\ UNCHANGED <<formData, variant, store, solarData, viewMode, selectedDate,
                 selectedMonth, selectedYear, loading, pending, issued,
                 changes, lastFetch>>

\* Variants whose deleteEntry returns on a falsy id.
ChecksId == {"App1", "App2", "P0", "P1", "P2", "P4"}
\* Variants whose addEntry calls fetchData whatever the insert returned.
RefetchAfterInsertError == {"App2", "P3", "P5"}

\* Mutation of deleteEntry: the adminAuth test dropped.
deleteEntryUnguarded ==
  /\ Rendered
  /\ issued < MaxRequests
  /\ \E i \in DOMAIN solarData :
       /\ variant \in ChecksId => solarData[i].id # 0
       /\ pending' = pending \cup
            {Request(issued + 1, "delete", solarData[i].id, <<>>, "user")}
  /\ issued' = issued + 1
  /\ UNCHANGED <<formData, variant, store, solarData, viewMode, selectedDate,
                 selectedMonth, selectedYear, loading, adminAuth, changes,
                 lastFetch>>

\* deleteEntry(e.id) from a row of the admin table, confirmed: returns
\* unless id and adminAuth are truthy, else sends the delete.
deleteEntry ==
  /\ Rendered
  /\ adminAuth
  /\ issued < MaxRequests
  /\ \E i \in DOMAIN solarData :
       /\ variant \in ChecksId => solarData[i].id # 0
       /\ pending' = pending \cup
            {Request(issued + 1, "delete", solarData[i].id, <<>>, "user")}
  /\ issued' = issued + 1
  /\ UNCHANGED <<formData, variant, store, solarData, viewMode, selectedDate,
                 selectedMonth, selectedYear, loading, adminAuth, changes,
                 lastFetch>>

\* The delete returns without error: the row is gone and fetchData runs.
deleteApplied ==
  \E m \in pending :
    /\ m.op = "delete"
    /\ store' = deleteRow(store, m.id)
    /\ changes' = IF variant = "P3" /\ store' # store THEN changes + 1 ELSE changes
    /\ callFetchData(pending \ {m}, store', "delete")
    /\ UNCHANGED <<formData, variant, solarData, viewMode, selectedDate, selectedMonth,
                   selectedYear, adminAuth>>

\* Mutation of deleteRejected: the row is dropped from solarData anyway.
deleteRejectedDropsRow ==
  \E m \in pending :
    /\ m.op = "delete"
    /\ solarData' = deleteRow(solarData, m.id)
    /\ IF variant = "P3"
       THEN callFetchData(pending \ {m}, store, "deleteError")
       ELSE /\ pending' = pending \ {m}
            /\ UNCHANGED <<issued, loading, lastFetch>>
    /\ UNCHANGED <<formData, variant, store, viewMode, selectedDate, selectedMonth,
                   selectedYear, adminAuth, changes>>

\* The delete returns an error: alert(error.message) and nothing else;
\* part_003 does not read the error and calls fetchData as after a success.
deleteRejected ==
  \E m \in pending :
    /\ m.op = "delete"
    /\ IF variant = "P3"
       THEN callFetchData(pending \ {m}, store, "deleteError")
       ELSE /\ pending' = pending \ {m}
            /\ UNCHANGED <<issued, loading, lastFetch>>
    /\ UNCHANGED <<formData, variant, store, solarData, viewMode, selectedDate,
                   selectedMonth, selectedYear, adminAuth, changes>>

\* An input of the admin form, rendered when adminAuth, is edited:
\* setFormData({...formData, [field]: e.target.value}).
setFormData ==
  /\ Rendered
  /\ adminAuth
  /\ \E form \in FormChoices \ {formData} : formData' = form
  /\ UNCHANGED <<variant, store, solarData, viewMode, selectedDate,
                 selectedMonth, selectedYear, loading, adminAuth, pending,
                 issued, changes, lastFetch>>

\* The admin form, rendered when adminAuth, passes the browser's validation
\* and is submitted: the insert is sent with the parsed inputs (part_003
\* tests adminAuth again in the handler).
addEntry ==
  /\ Rendered
  /\ adminAuth
  /\ checkValidity(variant, formData)
  /\ issued < MaxRequests
  /\ pending' = pending \cup
       {Request(issued + 1, "insert", 0,
                <<insertedRow(formData, Len(Catalogue) + issued + 1)>>, "user")}
  /\ issued' = issued + 1
  /\ UNCHANGED <<formData, variant, store, solarData, viewMode, selectedDate,
                 selectedMonth, selectedYear, loading, adminAuth, changes,
                 lastFetch>>

\* The insert returns without error: the row is stored, the form is reset
\* and fetchData runs.
insertApplied ==
  \E m \in pending :
    /\ m.op = "insert"
    /\ store' = insertRow(store, m.data[1])
    /\ changes' = IF variant = "P3" THEN changes + 1 ELSE changes
    /\ formData' = defaultForm
    /\ callFetchData(pending \ {m}, store', "insert")
    /\ UNCHANGED <<variant, solarData, viewMode, selectedDate, selectedMonth,
                   selectedYear, adminAuth>>

\* The insert returns an error: nothing is stored; the second component of
\* App.jsx, part_003 and part_005 call fetchData all the same.
insertRejected ==
  \E m \in pending :
    /\ m.op = "insert"
    /\ IF variant \in RefetchAfterInsertError
       THEN /\ formData' = defaultForm
            /\ callFetchData(pending \ {m}, store, "insertError")
       ELSE /\ pending' = pending \ {m}
            /\ UNCHANGED <<formData, issued, loading, lastFetch>>
    /\ UNCHANGED <<variant, store, solarData, viewMode, selectedDate,
                   selectedMonth, selectedYear, adminAuth, changes>>

\* part_003: the realtime channel reports a change of daily_readings and
\* its callback calls fetchData.
postgresChanges ==
  /\ variant = "P3"
  /\ changes > 0
  /\ changes' = changes - 1
  /\ callFetchData(pending, store, "realtime")
  /\ UNCHANGED <<formData, variant, store, solarData, viewMode, selectedDate,
                 selectedMonth, selectedYear, adminAuth>>

\* The application mounted on one of the tables of StoreChoices, the
\* selectors at one fixed date.
InitStore ==
  /\ variant \in Variants
  /\ store \in StoreChoices
  /\ solarData = <<>>
  /\ viewMode = InitialMode(variant)
  /\ selectedDate = Ymd(Y2025, <<"0", "1">>, <<"0", "1">>)
  /\ selectedMonth = Ym(Y2025, <<"0", "1">>)
  /\ selectedYear = Y2025
  /\ loading = TRUE
  /\ adminAuth = FALSE
  /\ formData = defaultForm
  /\ pending = {}
  /\ issued = 0
  /\ changes = 0
  /\ lastFetch = NoFetch

NextStore ==
  \/ mountFetch
  \/ fetchSucceeded
  \/ fetchFailed
  \/ handleAdminLogin
  \/ logout
  \/ deleteEntry
  \/ deleteApplied
  \/ deleteRejected
  \/ setFormData
  \/ addEntry
  \/ insertApplied
  \/ insertRejected
  \/ postgresChanges

SpecStore == InitStore /\ [][NextStore]_vars

(***************************************************************************)
(* Properties                                                              *)
(***************************************************************************)
\* Variants with a derivation stage (part_003 stores consumed instead).
Derives == Variants \ {"P3"}

AllNumeric(r) == IsNum(r.produced) /\ IsNum(r.exported) /\ IsNum(r.imported)
Missing(x) == x.t \in {"null", "undefined"}
\* A field's value with a missing one read as 0.
OrZero(x) == IF Missing(x) THEN Zero ELSE x
\* x - y and x + y on numbers.
Minus(x, y) == NumAdd(x, NumNeg(y))
Plus(x, y) == NumAdd(x, y)

\* C1: for every raw reading whose produced, exported and imported are
\* numbers, the derived reading's consumed is exactly
\* (produced - exported) + imported.
C1_ConsumedExact ==
  variant \in Derives =>
    /\ Len(processedData) = Len(solarData)
    /\ \A i \in DOMAIN solarData :
         LET r == solarData[i]
         IN  AllNumeric(r) =>
               processedData[i].consumed =
                 Plus(Minus(r.produced, r.exported), r.imported)

C1_Witness ==
  /\ variant \in Derives
  /\ \E i \in DOMAIN solarData :
       /\ AllNumeric(solarData[i])
       /\ solarData[i].produced = Num(10)
       /\ solarData[i].exported = Num(4)
       /\ solarData[i].imported = Num(2)
       /\ processedData[i].consumed = Num(8)

\* C2: for every raw reading with numeric fields selfUsed is
\* produced - exported, also when exported > produced: the negative value is
\* kept (no clamping, no rejection); {produced: 5, exported: 7, imported: 0}
\* gives selfUsed -2 and consumed -2.
C2_SelfUsedUnclamped ==
  variant \in Derives =>
    /\ Len(processedData) = Len(solarData)
    /\ \A i \in DOMAIN solarData :
         LET r == solarData[i]
         IN  /\ AllNumeric(r) =>
                  processedData[i].selfUsed = Minus(r.produced, r.exported)
             /\ (r.produced = Num(5) /\ r.exported = Num(7) /\ r.imported = Num(0)) =>
                  /\ processedData[i].selfUsed = Num(-2)
                  /\ processedData[i].consumed = Num(-2)

C2_Witness ==
  /\ variant \in Derives
  /\ \E i \in DOMAIN solarData :
       /\ solarData[i].produced = Num(5)
       /\ solarData[i].exported = Num(7)
       /\ solarData[i].imported = Num(0)
       /\ processedData[i].selfUsed.n < 0

\* C3: efficiency is (selfUsed / produced) * 100 when produced > 0 and
\* exactly 0 when produced is 0, never NaN or an infinity.
C3_EfficiencyGuarded ==
  variant \in HasEfficiency =>
    \A i \in DOMAIN solarData :
      LET r == solarData[i]
          e == processedData[i].efficiency
      IN  /\ (AllNumeric(r) /\ r.produced.n > 0) =>
               /\ IsNum(e)
               /\ e.n * r.produced.n * r.exported.d =
                    100 * e.d * (r.produced.n * r.exported.d -
                                 r.exported.n * r.produced.d)
          /\ r.produced = Zero => e = Zero

C3_Witness ==
  /\ variant \in HasEfficiency
  /\ \E i, j \in DOMAIN solarData :
       /\ solarData[i].produced = Zero
       /\ solarData[i].exported = Num(7)
       /\ processedData[i].efficiency = Zero
       /\ solarData[j].produced = Num(10)
       /\ solarData[j].exported = Num(4)
       /\ processedData[j].efficiency = Num(60)

\* C4: derive never fails; a produced, exported or imported that is missing
\* (undefined or null) counts as 0 in selfUsed, consumed and efficiency, and
\* a derived reading is still returned.
C4_MissingAsZero ==
  variant \in Derives =>
    /\ Len(processedData) = Len(solarData)
    /\ \A i \in DOMAIN solarData :
         LET r == solarData[i]
             p == OrZero(r.produced)
             x == OrZero(r.exported)
             m == OrZero(r.imported)
             d == processedData[i]
         IN  (/\ Missing(r.produced) \/ Missing(r.exported) \/ Missing(r.imported)
              /\ IsNum(p) /\ IsNum(x) /\ IsNum(m)) =>
               /\ d.selfUsed = Minus(p, x)
               /\ d.consumed = Plus(Minus(p, x), m)
               /\ variant \in HasEfficiency =>
                    d.efficiency = IF p.n > 0
                                   THEN NumDiv(NumMul(Minus(p, x), Num(100)), p)
                                   ELSE Zero

C4_Witness ==
  /\ variant \in HasEfficiency
  /\ \E i \in DOMAIN solarData :
       /\ solarData[i].produced = Num(5)
       /\ solarData[i].exported = Undefined
       /\ solarData[i].imported = Null
       /\ processedData[i].selfUsed = Num(5)
       /\ processedData[i].consumed = Num(5)
       /\ processedData[i].efficiency = Num(100)

\* C5: a produced, exported or imported holding a non-numeric string counts
\* as 0: selfUsed and consumed are the numbers computed with 0 in its place.
C5_NonNumericAsZero ==
  variant \in Derives =>
    \A i \in DOMAIN solarData :
      LET r == solarData[i]
          z(v) == IF v = NonNumeric \/ Missing(v) THEN Zero ELSE v
          d == processedData[i]
      IN  (/\ NonNumeric \in {r.produced, r.exported, r.imported}
           /\ IsNum(z(r.produced)) /\ IsNum(z(r.exported)) /\ IsNum(z(r.imported))) =>
            /\ d.selfUsed = Minus(z(r.produced), z(r.exported))
            /\ d.consumed = Plus(Minus(z(r.produced), z(r.exported)), z(r.imported))

\* The rows of the current period, when the filter returned.
periodRows == currentPeriodData.rows

RECURSIVE SumOf(_, _)
SumOf(rows, f) ==
  IF rows = <<>> THEN Zero ELSE Plus(Head(rows)[f], SumOf(Tail(rows), f))

\* A non-empty period all of whose summed fields are numbers.
NumericPeriod ==
  LET period == currentPeriodData
  IN  /\ period.t = "array"
      /\ Len(period.rows) > 0
      /\ \A i \in DOMAIN period.rows :
           AllNumeric(period.rows[i]) /\ IsNum(period.rows[i].consumed)

\* The fields of a stats object st under the names of the data model.
Shown(st, f) ==
  CASE f = "totalProduced" -> IF variant = "P3" THEN st.produced ELSE st.totalProduced
    [] f = "totalConsumed" -> IF variant = "P3" THEN st.consumed ELSE st.totalConsumed
    [] f = "totalExported" -> st.exported
    [] f = "totalImported" -> st.imported
    [] f = "selfConsumptionRate" -> IF variant = "P3" THEN st.selfConsumption ELSE st.selfRate
    [] f = "gridRelianceRate" -> IF variant = "P3" THEN st.gridReliance ELSE st.gridRate

\* Decimals the variant displays for a total.
TotalDigits == IF variant \in RawSum THEN 1 ELSE 2

\* |x - y| <= half a unit of the k-th decimal.
Within(x, y, k) ==
  LET dl == Minus(x, y) IN IsNum(dl) /\ 2 * Pow10(k) * Abs(dl.n) <= dl.d

\* C6: aggregate over an empty period returns the absent state (null), and
\* for every non-empty period it returns a stats object.
C6_AbsentIffEmpty ==
  currentPeriodData.t = "array" =>
    /\ Len(periodRows) = 0 => stats = Null
    /\ Len(periodRows) > 0 => stats.t = "object"

\* C7 as written: the totals are the plain sums of the period's fields and
\* the averages are exactly total / count.
C7_TotalsExact ==
  LET st == stats
      rows == periodRows IN
  NumericPeriod =>
    /\ st.t = "object"
    /\ Number(Shown(st, "totalProduced")) = SumOf(rows, "produced")
    /\ Number(Shown(st, "totalExported")) = SumOf(rows, "exported")
    /\ Number(Shown(st, "totalImported")) = SumOf(rows, "imported")
    /\ Number(Shown(st, "totalConsumed")) = SumOf(rows, "consumed")
    /\ variant # "P3" =>
         /\ Number(st.avgProduced) =
              NumDiv(SumOf(rows, "produced"), Num(Len(rows)))
         /\ Number(st.avgConsumed) =
              NumDiv(SumOf(rows, "consumed"), Num(Len(rows)))

\* C7 as amended: each total is the plain sum of the period's field rounded
\* to the variant's display precision, each average is sum / count rounded
\* to two decimals, and the two readings of 2025-01 give 18, 6, 5, 17 and an
\* average production of 9.
C7_TotalsRounded ==
  LET st == stats
      rows == periodRows IN
  NumericPeriod =>
    /\ st.t = "object"
    /\ Within(Number(Shown(st, "totalProduced")), SumOf(rows, "produced"), TotalDigits)
    /\ Within(Number(Shown(st, "totalExported")), SumOf(rows, "exported"), TotalDigits)
    /\ Within(Number(Shown(st, "totalImported")), SumOf(rows, "imported"), TotalDigits)
    /\ Within(Number(Shown(st, "totalConsumed")), SumOf(rows, "consumed"), TotalDigits)
    /\ variant # "P3" =>
         /\ Within(Number(st.avgProduced),
                   NumDiv(SumOf(rows, "produced"), Num(Len(rows))), 2)
         /\ Within(Number(st.avgConsumed),
                   NumDiv(SumOf(rows, "consumed"), Num(Len(rows))), 2)
    /\ (variant # "P3" /\ Len(rows) = 2 /\
        rows[1].id = 1 /\ rows[2].id = 2) =>
         /\ Number(Shown(st, "totalProduced")) = Num(18)
         /\ Number(Shown(st, "totalExported")) = Num(6)
         /\ Number(Shown(st, "totalImported")) = Num(5)
         /\ Number(Shown(st, "totalConsumed")) = Num(17)
         /\ Number(st.avgProduced) = Num(9)

C7_Witness ==
  LET st == stats
      rows == periodRows IN
  /\ NumericPeriod
  /\ Len(rows) = 2
  /\ st.t = "object"
  /\ Number(Shown(st, "totalProduced")) # SumOf(rows, "produced")
  /\ Within(Number(Shown(st, "totalProduced")), SumOf(rows, "produced"), TotalDigits)

\* C8: in every non-empty period a zero denominator gives rate 0, never NaN
\* or an error: the self-consumption rate is 0 when the production total is
\* 0 and the grid-reliance rate is 0 when the consumption total is 0.
C8_ZeroDenominator ==
  LET st == stats
      rows == periodRows IN
  (currentPeriodData.t = "array" /\ Len(rows) > 0) =>
    LET s == sums(rows)
    IN  /\ s.prod = Zero =>
             /\ selfRate(s.self, s.prod) = Zero
             /\ st.t = "object" => Shown(st, "selfConsumptionRate") = Zero
        /\ s.cons = Zero =>
             /\ gridRate(s.imp, s.cons) = Zero
             /\ st.t = "object" => Shown(st, "gridRelianceRate") = Zero

C8_Witness ==
  LET st == stats
      rows == periodRows IN
  /\ currentPeriodData.t = "array"
  /\ Len(rows) > 0
  /\ sums(rows).prod = Zero
  /\ sums(rows).cons = Zero
  /\ sums(rows).exp = Num(7)
  /\ st.t = "object"
  /\ Shown(st, "selfConsumptionRate") = Zero
  /\ Shown(st, "gridRelianceRate") = Zero

\* C9 as written: whenever the consumption total is not 0, negative totals
\* included, the grid-reliance rate is totalImported / totalConsumed * 100
\* (as displayed: rounded to a whole percent).
C9_GridRateNonZero ==
  NumericPeriod =>
    LET s == sums(periodRows)
    IN  s.cons.n # 0 =>
          Within(Number(gridRate(s.imp, s.cons)),
                 NumDiv(NumMul(s.imp, Num(100)), s.cons), 0)

\* C9 as amended: the grid-reliance rate is totalImported / totalConsumed *
\* 100, rounded to a whole percent, when the consumption total is positive,
\* and 0 whenever the consumption total is 0 or negative.
C9_GridRatePositive ==
  LET st == stats
      rows == periodRows IN
  NumericPeriod =>
    LET s == sums(rows)
    IN  /\ st.t = "object"
        /\ Shown(st, "gridRelianceRate") = gridRate(s.imp, s.cons)
        /\ s.cons.n > 0 =>
             Within(Number(Shown(st, "gridRelianceRate")),
                    NumDiv(NumMul(s.imp, Num(100)), s.cons), 0)
        /\ s.cons.n <= 0 => Shown(st, "gridRelianceRate") = Zero

C9_Witness ==
  LET st == stats
      rows == periodRows IN
  /\ NumericPeriod
  /\ sums(rows).cons.n < 0
  /\ sums(rows).imp.n > 0
  /\ Shown(st, "gridRelianceRate") = Zero

\* The rule of the active mode: Day is equality with the selector, Month
\* and Year are a prefix match.
Matches(d) ==
  CASE viewMode = "day" -> d.date.t = "string" /\ d.date.s = selectedDate
    [] viewMode = "month" -> d.date.t = "string" /\ startsWith(d.date.s, selectedMonth)
    [] OTHER -> d.date.t = "string" /\ startsWith(d.date.s, selectedYear)

\* C10: the filter returns exactly the readings that match the active mode's
\* rule: none that matches is dropped, none that does not is included.
C10_FilterExact ==
  /\ currentPeriodData.t = "array"
  /\ periodRows = SelectSeq(processedData, Matches)

\* A reading whose date is null or undefined.
MissingDate(d) == d.date.t \in {"null", "undefined"}

\* C11: with a reading whose date is missing (null or undefined) in the
\* reading set, the filter still completes in every mode and returns the
\* matching readings, that reading excluded.
C11_MissingDateExcluded ==
  (\E i \in DOMAIN processedData : MissingDate(processedData[i])) =>
    /\ currentPeriodData.t = "array"
    /\ \A j \in DOMAIN periodRows : ~MissingDate(periodRows[j])
    /\ Len(periodRows) = Len(SelectSeq(processedData, Matches))

\* A YYYY-MM-DD string that names a calendar month and day.
ValidDate(s) ==
  /\ Len(s) = 10
  /\ \A k \in {1, 2, 3, 4, 6, 7, 9, 10} : IsDigit(s[k])
  /\ s[5] = "-" /\ s[8] = "-"
  /\ DigitsValue(SubSeq(s, 6, 7)) \in 1..12
  /\ DigitsValue(SubSeq(s, 9, 10)) \in 1..31

\* C12: a reading whose date is malformed (such as "2025-13-01") is in the
\* result of no period filter, whether Day, Month or Year.
C12_MalformedExcluded ==
  currentPeriodData.t = "array" =>
    \A j \in DOMAIN periodRows :
      periodRows[j].date.t = "string" /\ ValidDate(periodRows[j].date.s)

\* C13: the year rollup is exactly 12 buckets, January to December in
\* order, for every reading set and in every state, whatever the view mode.
C13_TwelveBuckets ==
  variant \in HasYearly =>
    /\ yearlyGraphData.t = "array"
    /\ Len(yearlyGraphData.rows) = 12
    /\ \A m \in 1..12 : yearlyGraphData.rows[m].name = months[m]

\* "01" .. "12".
TwoDigit ==
  << <<"0", "1">>, <<"0", "2">>, <<"0", "3">>, <<"0", "4">>, <<"0", "5">>,
     <<"0", "6">>, <<"0", "7">>, <<"0", "8">>, <<"0", "9">>, <<"1", "0">>,
     <<"1", "1">>, <<"1", "2">> >>

\* The derived readings dated in month m of the selected year.
InMonth(m) ==
  LET hit(d) == d.date.t = "string" /\
                startsWith(d.date.s, Ym(selectedYear, TwoDigit[m]))
  IN  SelectSeq(processedData, hit)

\* C14: in the year rollup the bucket of month m holds the sums of produced
\* and of consumed over exactly the derived readings whose date starts with
\* "<selectedYear>-<mm>", and 0 for both when none does (readings with
\* numeric fields).
C14_BucketSums ==
  (/\ variant \in HasYearly
   /\ viewMode = "year"
   /\ \A i \in DOMAIN processedData :
        AllNumeric(processedData[i]) /\ IsNum(processedData[i].consumed)) =>
    /\ yearlyGraphData.t = "array"
    /\ Len(yearlyGraphData.rows) = 12
    /\ \A m \in 1..12 :
         /\ yearlyGraphData.rows[m].produced = SumOf(InMonth(m), "produced")
         /\ yearlyGraphData.rows[m].consumed = SumOf(InMonth(m), "consumed")
         /\ InMonth(m) = <<>> =>
              /\ yearlyGraphData.rows[m].produced = Zero
              /\ yearlyGraphData.rows[m].consumed = Zero

\* C15: a mode switch changes only viewMode; each selector changes only in
\* a step that keeps the mode, while its own input is displayed, so a mode
\* that is returned to shows the selector value last set for it.
C15_ModeSwitchFrame ==
  [][/\ viewMode' # viewMode =>
          /\ selectedDate' = selectedDate
          /\ selectedMonth' = selectedMonth
          /\ selectedYear' = selectedYear
     /\ selectedDate' # selectedDate => viewMode' = viewMode /\ viewMode = "day"
     /\ selectedMonth' # selectedMonth =>
          /\ viewMode' = viewMode
          /\ IF variant = "P5" THEN viewMode # "day" ELSE viewMode = "month"
     /\ selectedYear' # selectedYear => viewMode' = viewMode /\ viewMode = "year"
    ]_vars

C15_Witness ==
  /\ variant = "P0"
  /\ Rendered
  /\ viewMode = "year"
  /\ viewMode # InitialMode(variant)
  /\ selectedMonth = Ym(Y2025, <<"0", "3">>)
  /\ selectedYear = Y2026

\* The user selects mode m.
ModeSelected(m) == setViewMode /\ viewMode' = m

\* C16 as written: the mode is one of Day, Month, Year and, the controls
\* being displayed, each of the other two is one selection away.
C16_AnyModeReachable ==
  /\ viewMode \in {"day", "month", "year"}
  /\ Rendered =>
       \A m \in {"day", "month", "year"} \ {viewMode} : ENABLED ModeSelected(m)

\* C16 as amended: the mode is always one of the modes the variant's
\* controls offer (Month and Year in both components of App.jsx, Day and
\* Month in part_005, all three in part_000 .. part_004), and each other
\* offered mode is one selection away; no other mode is.
C16_OfferedModes ==
  LET offered == CASE variant \in {"App1", "App2"} -> {"month", "year"}
                   [] variant = "P5" -> {"day", "month"}
                   [] OTHER -> {"day", "month", "year"}
  IN  /\ viewMode \in offered
      /\ Rendered =>
           \A m \in {"day", "month", "year"} :
             (ENABLED ModeSelected(m)) <=> m \in offered

C16_Witness ==
  /\ variant = "P5"
  /\ Rendered
  /\ viewMode = "day"
  /\ viewMode # InitialMode(variant)
  /\ ~ENABLED ModeSelected("year")

\* C17: when fetches overlap and a later-issued one completes first, the
\* stale result is discarded: once no fetch is in flight, solarData is the
\* result of the most recently issued fetch.
C17_StaleFetchDiscarded ==
  (selects(pending) = {} /\ lastFetch.outcome = "ok") =>
    solarData = lastFetch.data

\* What the presentation layer can see.
AppState ==
  <<solarData, viewMode, selectedDate, selectedMonth, selectedYear, loading,
    adminAuth>>

\* AppState after a fetch that succeeds with no rows.
AfterEmptyFetch ==
  <<<<>>, viewMode, selectedDate, selectedMonth, selectedYear, FALSE, adminAuth>>

\* C18: a store error on the fetch is surfaced as a state distinct from
\* "no rows": the state after a failed fetch differs from the state a
\* successful fetch of an empty collection would have left.
C18_ErrorDistinct ==
  [][fetchFailed => AppState' # AfterEmptyFetch]_vars

C20_AdminOnlyMutations ==
  /\ [](\A m \in pending : m.op \in {"select", "insert", "delete"})
  /\ [][\A m \in pending' \ pending :
          m.op \in {"insert", "delete"} => adminAuth]_vars

C20_Witness ==
  /\ adminAuth
  /\ \E m \in pending : m.op = "insert"
  /\ \E m \in pending : m.op = "delete"


\* C21: addEntry sends an insert only when the date is present and
\* produced, exported and imported each parse to a real number: no insert
\* in flight carries an empty date or a NaN (null on the wire) in one of
\* these columns.
C21_InsertValidated ==
  \A m \in pending :
    m.op = "insert" =>
      LET r == m.data[1]
      IN  /\ r.date.t = "string" /\ r.date.s # <<>>
          /\ IsNum(r.produced) /\ IsNum(r.exported) /\ IsNum(r.imported)


\* The four totals of the stats object st are all shown as zero.
ZeroTotals(st) ==
  \A f \in {"totalProduced", "totalConsumed", "totalExported", "totalImported"} :
    Number(Shown(st, f)) = Zero

\* C22: an empty period is shown differently from a non-empty period whose
\* totals are all zero: what the dashboard shows for such stats differs
\* from what it shows when stats is null.
C22_EmptyDistinct ==
  LET st == stats
  IN  (variant \in Presented /\ st.t = "object" /\ ZeroTotals(st)) =>
        presentation(st) # presentation(Null)




\* Selectors that agree with the current ones on the selector of the
\* current mode.
SameActiveSelector(date, month, year) ==
  CASE activeBranch = "day" -> date = selectedDate
    [] activeBranch = "month" -> month = selectedMonth
    [] OTHER -> year = selectedYear

\* C23: the derived view is a function of the reading set, the view mode and
\* that mode's selector: processedData is derive of each row of solarData,
\* with any other values for the selectors of the inactive modes the filter
\* gives the same currentPeriodData, stats is aggregate of it, and outside
\* Year mode the monthly rollup is empty whatever the year is.
C23_DerivedView ==
  LET period == currentPeriodData
      st == stats
  IN  /\ variant \in Derives =>
           processedData = [i \in DOMAIN solarData |-> derive(solarData[i])]
      /\ \A date \in DateChoices, month \in MonthChoices, year \in YearChoices :
           SameActiveSelector(date, month, year) =>
             filterByPeriod(processedData, viewMode, date, month, year) = period
      /\ st = IF period.t = "TypeError" THEN TypeError
              ELSE aggregate(period.rows)
      /\ (variant \in HasYearly /\ viewMode # "year") =>
           yearlyGraphData = [t |-> "array", rows |-> <<>>]

C23_Witness ==
  /\ Rendered
  /\ viewMode = "month"
  /\ selectedMonth = Ym(Y2025, <<"0", "3">>)
  /\ selectedDate = Ymd(Y2025, <<"0", "1">>, <<"0", "1">>)
  /\ selectedYear = Y2026
  /\ stats.t = "object"
  /\ Len(currentPeriodData.rows) = 1
  /\ Len(solarData) = 2


\* The place in processedData of the reading with the id of r.
PlaceOf(r) == CHOOSE k \in DOMAIN processedData : processedData[k].id = r.id

\* C24: the filter keeps the relative order of its input: every reading of
\* currentPeriodData is a reading of processedData, and of two readings of
\* the result the earlier one is the earlier one in processedData, in every
\* mode.
C24_OrderPreserved ==
  LET rows == periodRows
  IN  /\ \A i \in DOMAIN rows :
           \E k \in DOMAIN processedData : processedData[k] = rows[i]
      /\ \A i, j \in DOMAIN rows :
           i < j => PlaceOf(rows[i]) < PlaceOf(rows[j])

C24_Witness ==
  /\ Len(solarData) = 2
  /\ Len(periodRows) = 2
  /\ periodRows[1].id = solarData[1].id
  /\ periodRows[2].id = solarData[2].id
  /\ periodRows[1].id # periodRows[2].id


\* C25: the two computations of total self-use agree: for every non-empty
\* period the sum of the readings' selfUsed (second component of App.jsx,
\* part_004, part_005) equals total produced minus total exported (the
\* other variants), and the self-consumption rate is the same from either.
C25_SelfUseAgrees ==
  LET period == currentPeriodData
      rows == period.rows
      a == sumsRaw(rows)
      b == sumsCoerced(rows)
  IN  (variant \in Derives /\ period.t = "array" /\ Len(rows) > 0) =>
        /\ b.self = Sub(b.prod, b.exp)
        /\ b.self = a.self
        /\ selfRate(b.self, b.prod) = selfRate(a.self, a.prod)


\* C26: Year view agrees with its monthly rollup: for a non-empty selected
\* year the produced of the twelve buckets add up to the total produced of
\* the year's stats and their consumed to its total consumed (every reading
\* of the year total lies in exactly one bucket).
C26_YearEqualsBuckets ==
  LET period == currentPeriodData
      rows == period.rows
      s == sums(rows)
      buckets == yearlyGraphData
  IN  (/\ variant \in HasYearly
       /\ viewMode = "year"
       /\ period.t = "array"
       /\ Len(rows) > 0) =>
        /\ buckets.t = "array"
        /\ reduceRaw(buckets.rows, "produced", Zero) = s.prod
        /\ reduceRaw(buckets.rows, "consumed", Zero) = s.cons


\* C27: in part_003, where consumed is a stored column, the displayed
\* consumption follows the derivation rule: for every non-empty period total
\* consumed is total produced - total exported + total imported, and
\* fromSystem (consumed - imported) equals toHome (produced - exported).
C27_StoredConsumedDerived ==
  LET st == stats
      s == sums(periodRows)
  IN  (variant = "P3" /\ st.t = "object") =>
        /\ s.cons = Add(Sub(s.prod, s.exp), s.imp)
        /\ st.fromSystem = st.toHome


\* C28: the loading flag is true in every state in which a fetchData request
\* is still in flight, and false once every fetch that was sent has returned
\* (with rows, with an error, or by throwing).
C28_LoadingWhileInFlight ==
  /\ selects(pending) # {} => loading
  /\ (lastFetch # NoFetch /\ selects(pending) = {}) => ~loading


\* The sum of field f over rows, a missing value counted as 0.
SumOrZero(rows, f) ==
  LET val(k) == [rows[k] EXCEPT ![f] = OrZero(@)]
  IN  SumOf([k \in DOMAIN rows |-> val(k)], f)

\* Every produced, exported and imported of rows is a number or missing, and
\* one of them is missing.
SomeMissing(rows) ==
  /\ \A k \in DOMAIN rows : \A f \in {"produced", "exported", "imported"} :
       IsNum(rows[k][f]) \/ Missing(rows[k][f])
  /\ \E k \in DOMAIN rows : \E f \in {"produced", "exported", "imported"} :
       Missing(rows[k][f])

\* C29: aggregation counts a missing field as 0: for a non-empty period with
\* a reading whose produced, exported or imported is undefined or null, the
\* three totals are the sums with that field as 0, and in Year mode so is
\* the produced of every bucket of the rollup.
C29_MissingSummedAsZero ==
  LET period == currentPeriodData
      rows == period.rows
      s == sums(rows)
  IN  (period.t = "array" /\ Len(rows) > 0 /\ SomeMissing(rows)) =>
        /\ s.prod = SumOrZero(rows, "produced")
        /\ s.exp = SumOrZero(rows, "exported")
        /\ s.imp = SumOrZero(rows, "imported")
        /\ (variant \in HasYearly /\ viewMode = "year") =>
             /\ yearlyGraphData.t = "array"
             /\ \A m \in 1..12 :
                  yearlyGraphData.rows[m].produced =
                    SumOrZero(InMonth(m), "produced")


\* C30: when the store returns an error for an insert, formData is left as
\* it is and no fetch is issued: the form is reset and fetchData called only
\* after a successful insert.
C30_FailedInsertKeepsForm ==
  [][insertRejected =>
       /\ formData' = formData
       /\ issued' = issued
       /\ lastFetch' = lastFetch
       /\ loading' = loading]_vars

====
